---- MODULE Spec2Model ----
(***************************************************************************)
(* Model of cargo-spellcheck's action module (src/action/mod.rs):          *)
(*   - Patch and the conversion From<BandAid> for Patch,                   *)
(*   - apply_patches, the streaming merge of a buffer and a patch list,    *)
(*   - Action::correct_file, the temp-file-and-rename materialization,     *)
(*   - Action::run and its three modes.                                    *)
(*                                                                         *)
(* Text is a sequence of Unicode scalar values (naturals); its bytes are   *)
(* pairs <<scalar, k>>, the k-th byte of the scalar's UTF-8 encoding.      *)
(***************************************************************************)
EXTENDS Integers, Sequences, FiniteSets, TLC

\* ------------------------------------------------------------------ bounds

\* Longest source buffer, in scalar values.
MaxLen == 3

\* Longest patch sequence handed to apply_patches.
MaxPatches == 2

\* Positions range over lines 1..MaxLine and columns 0..MaxCol.
MaxLine == 2

MaxCol == 2

\* ------------------------------------------------------------------ text

\* '\n', 'a', a 2-byte, a 3-byte and a 4-byte scalar value.
NEWLINE == 10

Chars == {NEWLINE, 97, 233, 8364, 128032}

\* char::len_utf8
len_utf8(c) ==
    IF c < 128 THEN 1
    ELSE IF c < 2048 THEN 2
    ELSE IF c < 65536 THEN 3
    ELSE 4

RECURSIVE as_bytes(_)
\* str::as_bytes: the UTF-8 encoding of a string.
as_bytes(s) ==
    IF s = <<>> THEN <<>>
    ELSE [k \in 1..len_utf8(Head(s)) |-> <<Head(s), k>>] \o as_bytes(Tail(s))

\* str::len: length in bytes.
str_len(s) == Len(as_bytes(s))

\* str::is_char_boundary
is_char_boundary(s, off) ==
    \/ off = str_len(s)
    \/ /\ off >= 0
       /\ off < str_len(s)
       /\ as_bytes(s)[off + 1][2] = 1

\* ------------------------------------------------------------------ positions

LineColumn(l, c) == [line |-> l, column |-> c]

\* Ord for LineColumn: by line, then by column.
LcLess(p, q) == p.line < q.line \/ (p.line = q.line /\ p.column < q.column)

LcGeq(p, q) == ~LcLess(p, q)

LcLeq(p, q) == ~LcLess(q, p)

Span(s, e) == [start |-> s, end |-> e]

RECURSIVE LineColAt(_, _, _)
\* The position of the i-th scalar (1-based) of s, counting from `start`:
\* the column grows by one per scalar, a line terminator moves the next
\* scalar to column 0 of the next line.
LineColAt(s, start, i) ==
    IF i = 1 THEN start
    ELSE LET p == LineColAt(s, start, i - 1)
         IN  IF s[i - 1] = NEWLINE
             THEN LineColumn(p.line + 1, 0)
             ELSE LineColumn(p.line, p.column + 1)

\* Byte offset of the i-th scalar (1-based) of s.
ByteOffsetAt(s, i) == str_len(SubSeq(s, 1, i - 1))

\* iter_with_line_column_from: (char, byte_offset, idx, linecol) per scalar.
iter_with_line_column_from(s, start) ==
    [i \in 1..Len(s) |->
        [c |-> s[i],
         byte_offset |-> ByteOffsetAt(s, i),
         idx |-> i - 1,
         linecol |-> LineColAt(s, start, i)]]

\* ------------------------------------------------------------------ patches

None == [kind |-> "None"]

Replace(span, replacement) ==
    [kind |-> "Replace", replace_span |-> span, replacement |-> replacement]

Insert(at, content) ==
    [kind |-> "Insert", insert_at |-> at, content |-> content]

BandAid(span, content) == [span |-> span, content |-> content]

PatchFromAlwaysReplace(bandaid) == Replace(bandaid.span, bandaid.content)

\* impl From<BandAid> for Patch
PatchFrom(bandaid) ==
    IF bandaid.span.start = bandaid.span.end
    THEN Insert(bandaid.span.start, bandaid.content)
    ELSE Replace(bandaid.span, bandaid.content)

\* ------------------------------------------------------------------ run

\* enum Finish, and no value yet.
Finish(kind, count) == [kind |-> kind, count |-> count]

NoFinish == Finish("None", 0)

Abort == Finish("Abort", 0)

MistakeCount(count) == Finish("MistakeCount", count)

\* Err(..) out of a function that returns Result<Finish>.
Err == Finish("Err", 0)

\* ------------------------------------------------------------------ state

VARIABLES
    source_buffer,          \* apply_patches: the text being patched
    patches,                \* the peekable patch stream (what is left of it)
    source_iter,            \* number of scalars taken from the character stream
    current,                \* the patch popped last, or None
    byte_cursor,
    cc_start_byte_offset,
    cc_end_byte_offset,
    sink,                   \* the Write sink and what it has accepted
    pc,                     \* position in apply_patches
    given,                  \* the whole patch sequence apply_patches was given
    offered,                \* every byte handed to sink.write, in order
    iterations,             \* completed passes of the loop
    fs,                     \* the file system: path -> bytes, or NoFile
    action,                 \* Action::run: self
    suggestions,            \* Action::run: the SuggestionSet
    user_sel,               \* what the interactive picker returned last
    batch,                  \* the (origin, bandaids) pairs to materialize
    next_file,              \* index into batch of the pair in hand
    run_pc,                 \* position in Action::run
    finish,                 \* what Action::run returned, or None
    cf_pc,                  \* position in Action::correct_file
    path,                   \* correct_file: the canonicalized path
    bandaids,               \* correct_file: the bandaids
    original,               \* the file system when run was called
    run_n,                  \* Action::run: n, the count to report
    started,                \* indices of batch handed to correct_file
    failed,                 \* indices of batch whose correct_file returned Err
    published,              \* (path, bytes) of every rename done, in order
    dir,                    \* two invocations: path -> inode, or NoInode
    inodes,                 \* two invocations: the bytes of every inode
    procs,                  \* two invocations: each one's correct_file frame
    overlapped              \* both invocations have had the temporary file
                            \* open at one time

apvars == <<source_buffer, patches, source_iter, current, byte_cursor,
            cc_start_byte_offset, cc_end_byte_offset, pc, given,
            offered, iterations>>

runvars == <<action, suggestions, user_sel, batch, next_file, run_pc, finish,
             cf_pc, path, bandaids, original, run_n, started, failed,
             published>>

racevars == <<dir, inodes, procs, overlapped>>

vars == <<apvars, sink, fs, runvars, racevars>>

\* No second invocation: correct_file runs on its own.
RaceIdle ==
    /\ dir = <<>>
    /\ inodes = <<>>
    /\ procs = <<>>
    /\ overlapped = FALSE

\* ------------------------------------------------------------------ sinks

\* A file and its bytes, and the absence of a file.
File(bytes) == [exists |-> TRUE, bytes |-> bytes]

NoFile == [exists |-> FALSE, bytes |-> <<>>]

\* const TEMPORARY: &'static str = ".spellcheck.tmp" (joined to the cwd)
TEMPORARY == ".spellcheck.tmp"

\* Capacity of the BufWriter over the temporary file.  The source asks for
\* 1024 bytes; the model's writes are a few bytes long, so the capacity is
\* scaled down to keep both branches of BufWriter::write in play.
BufWriterCapacity == 3

\* Vec<u8> as Write: every byte is accepted.
VecSink == [kind |-> "vec", data |-> <<>>, buf |-> <<>>]

\* An arbitrary sink that obeys the Write contract.
FaultySink == [kind |-> "faulty", data |-> <<>>, buf |-> <<>>]

\* BufWriter::with_capacity(.., wr) over the temporary file.
BufWriterSink == [kind |-> "bufwriter", data |-> <<>>, buf |-> <<>>]

WriteResult(res, sk, file) == [res |-> res, sink |-> sk, file |-> file]

\* Write::write of a sink that may take any prefix of the data, or fail.
AnyWrite(sk, file, data) ==
    {WriteResult("ok", [sk EXCEPT !.data = @ \o SubSeq(data, 1, n)], file) :
        n \in 0..Len(data)}
    \cup {WriteResult("err", sk, file)}

\* File::write on the temporary file: the OS may take the data, or a
\* non-empty prefix of it, or fail.
FileWrite(sk, file, data) ==
    {WriteResult("ok", sk, file \o SubSeq(data, 1, k)) :
        k \in (IF data = <<>> THEN {0} ELSE 1..Len(data))}
    \cup {WriteResult("err", sk, file)}

\* BufWriter::flush_buf: write the whole buffer out; a failure keeps the
\* part not yet written.
FlushBuf(sk, file) ==
    {WriteResult("ok", [sk EXCEPT !.buf = <<>>], file \o sk.buf)}
    \cup {WriteResult("err",
                      [sk EXCEPT !.buf = SubSeq(sk.buf, n + 1, Len(sk.buf))],
                      file \o SubSeq(sk.buf, 1, n)) :
            n \in 0..(Len(sk.buf) - 1)}

\* BufWriter::write
BufWriterWrite(sk, file, data) ==
    LET flushed == IF Len(sk.buf) + Len(data) > BufWriterCapacity
                   THEN FlushBuf(sk, file)
                   ELSE {WriteResult("ok", sk, file)}
        After(f) == IF f.res = "err" THEN {f}
                    ELSE IF Len(data) >= BufWriterCapacity
                    THEN FileWrite(f.sink, f.file, data)
                    ELSE {WriteResult("ok", [f.sink EXCEPT !.buf = @ \o data],
                                      f.file)}
    IN  UNION {After(f) : f \in flushed}

\* sink.write(data.as_bytes()), by the kind of sink.
SinkWrite(sk, file, data) ==
    CASE sk.kind = "vec" ->
            {WriteResult("ok", [sk EXCEPT !.data = @ \o data], file)}
      [] sk.kind = "faulty" -> AnyWrite(sk, file, data)
      [] sk.kind = "bufwriter" -> BufWriterWrite(sk, file, data)

\* ------------------------------------------------------------------ apply_patches

Min(a, b) == IF a <= b THEN a ELSE b

Payload(p) == IF p.kind = "Replace" THEN p.replacement ELSE p.content

\* cc_end of an upcoming patch: where the carbon copy stops.
PatchStart(p) ==
    IF p.kind = "Replace" THEN p.replace_span.start ELSE p.insert_at

RECURSIVE DropWhileAt(_, _)
DropWhileAt(ps, at) ==
    IF ps # <<>> /\ PatchStart(Head(ps)) = at
    THEN DropWhileAt(Tail(ps), at) ELSE ps

\* A patch stream that hands out its head and keeps it.
patches_peek(ps) ==
    IF ps = <<>> THEN [item |-> None, rest |-> <<>>]
    ELSE [item |-> Head(ps), rest |-> ps]

\* A patch stream that coalesces the patches starting at one position.
patches_next_coalescing(ps) ==
    IF ps = <<>> THEN [item |-> None, rest |-> <<>>]
    ELSE [item |-> Head(ps), rest |-> DropWhileAt(Tail(ps), PatchStart(Head(ps)))]

\* patches.next(): the next patch of the stream, and the stream behind it.
patches_next(ps) ==
    IF ps = <<>> THEN [item |-> None, rest |-> <<>>]
    ELSE [item |-> Head(ps), rest |-> Tail(ps)]

RECURSIVE SkipLoopOneByte(_, _, _, _)
\* A 'skip loop that takes every scalar for one byte.
SkipLoopOneByte(items, it, cc_start, off) ==
    IF it >= Len(items) THEN [iter |-> it, off |-> off]
    ELSE LET p == items[it + 1]
             next == p.byte_offset + 1
         IN  IF LcGeq(p.linecol, cc_start)
             THEN [iter |-> it, off |-> next]
             ELSE SkipLoopOneByte(items, it + 1, cc_start, next)

RECURSIVE SkipLoop(_, _, _, _)
\* The 'skip loop: pass the characters before cc_start; `off` is the byte
\* offset behind the character peeked last.
SkipLoop(items, it, cc_start, off) ==
    IF it >= Len(items) THEN [iter |-> it, off |-> off]
    ELSE LET p == items[it + 1]
             next == p.byte_offset + len_utf8(p.c)
         IN  IF LcGeq(p.linecol, cc_start)
             THEN [iter |-> it, off |-> next]
             ELSE SkipLoop(items, it + 1, cc_start, next)

RECURSIVE CcLoopStrict(_, _, _, _)
\* A 'cc loop that stops behind cc_end instead of at it.
CcLoopStrict(items, it, cc_end, off) ==
    IF it >= Len(items) THEN [iter |-> it, off |-> off]
    ELSE LET p == items[it + 1]
         IN  IF LcLess(cc_end, p.linecol)
             THEN [iter |-> it, off |-> off]
             ELSE CcLoopStrict(items, it + 1, cc_end,
                               p.byte_offset + len_utf8(p.c))

RECURSIVE CcLoopToPeeked(_, _, _, _)
\* A 'cc loop that ends the copy where the character it stops at begins.
CcLoopToPeeked(items, it, cc_end, off) ==
    IF it >= Len(items) THEN [iter |-> it, off |-> off]
    ELSE LET p == items[it + 1]
         IN  IF LcGeq(p.linecol, cc_end)
             THEN [iter |-> it, off |-> p.byte_offset]
             ELSE CcLoopToPeeked(items, it + 1, cc_end,
                                 p.byte_offset + len_utf8(p.c))

RECURSIVE CcLoop(_, _, _, _)
\* The 'cc loop: take the characters before cc_end; `off` is the byte offset
\* behind the character taken last.
CcLoop(items, it, cc_end, off) ==
    IF it >= Len(items) THEN [iter |-> it, off |-> off]
    ELSE LET p == items[it + 1]
         IN  IF LcGeq(p.linecol, cc_end)
             THEN [iter |-> it, off |-> off]
             ELSE CcLoop(items, it + 1, cc_end, p.byte_offset + len_utf8(p.c))

\* &source_buffer[a..b] panics unless a <= b <= len and both are boundaries.
SliceOk(s, a, b) ==
    /\ a <= b
    /\ b <= str_len(s)
    /\ is_char_boundary(s, a)
    /\ is_char_boundary(s, b)

\* A slice that starts one byte late.
SliceFromNext(s, a, b) == SubSeq(as_bytes(s), a + 2, b)

\* &source_buffer[a..b]
Slice(s, a, b) == SubSeq(as_bytes(s), a + 1, b)

TmpContent == fs[TEMPORARY].bytes

SetSink(o) ==
    /\ sink' = o.sink
    /\ fs' = IF sink.kind = "bufwriter"
             THEN [fs EXCEPT ![TEMPORARY] = File(o.file)]
             ELSE fs

\* The first half of one pass of the loop: emit the pending patch, skip what
\* a Replace covers, find the end of the carbon copy.
ApplyNew ==
    /\ pc = "new"
    /\ run_pc # "crashed"
    /\ \E o \in (IF current = None
                 THEN {WriteResult("ok", sink, TmpContent)}
                 ELSE SinkWrite(sink, TmpContent, as_bytes(Payload(current)))) :
        LET items == iter_with_line_column_from(source_buffer, LineColumn(1, 0))
            skipped == IF current = None \/ current.kind = "Insert"
                       THEN [iter |-> source_iter, off |-> byte_cursor]
                       ELSE SkipLoop(items, source_iter,
                                     current.replace_span.end, byte_cursor)
            copied == IF patches # <<>>
                      THEN CcLoop(items, skipped.iter,
                                  PatchStart(Head(patches)), skipped.off)
                      ELSE [iter |-> skipped.iter, off |-> str_len(source_buffer)]
            cc_end == Min(copied.off, str_len(source_buffer))
        IN  /\ SetSink(o)
            /\ offered' = IF current = None THEN offered
                          ELSE offered \o as_bytes(Payload(current))
            /\ IF o.res = "err"
               THEN /\ pc' = "err"
                    /\ UNCHANGED <<source_iter, byte_cursor,
                                   cc_start_byte_offset, cc_end_byte_offset>>
               ELSE IF ~(byte_cursor <= skipped.off)
               THEN \* debug_assert!(byte_cursor <= cc_start_byte_offset)
                    /\ pc' = "panic"
                    /\ source_iter' = skipped.iter
                    /\ cc_start_byte_offset' = skipped.off
                    /\ UNCHANGED <<byte_cursor, cc_end_byte_offset>>
               ELSE IF ~(skipped.off <= cc_end)
               THEN \* debug_assert!(byte_cursor <= cc_end_byte_offset)
                    /\ pc' = "panic"
                    /\ source_iter' = copied.iter
                    /\ cc_start_byte_offset' = skipped.off
                    /\ byte_cursor' = skipped.off
                    /\ cc_end_byte_offset' = cc_end
               ELSE /\ pc' = "cc"
                    /\ source_iter' = copied.iter
                    /\ cc_start_byte_offset' = skipped.off
                    /\ cc_end_byte_offset' = cc_end
                    /\ byte_cursor' = cc_end
    /\ UNCHANGED <<source_buffer, patches, current, given, iterations, runvars>>
    /\ UNCHANGED racevars

\* The second half: write the carbon copy, pop the next patch.
ApplyCc ==
    /\ pc = "cc"
    /\ run_pc # "crashed"
    /\ IF ~SliceOk(source_buffer, cc_start_byte_offset, cc_end_byte_offset)
       THEN /\ pc' = "panic"
            /\ UNCHANGED <<sink, fs, offered, current, patches, iterations>>
       ELSE LET data == Slice(source_buffer, cc_start_byte_offset,
                              cc_end_byte_offset)
            IN  \E o \in SinkWrite(sink, TmpContent, data) :
                    /\ SetSink(o)
                    /\ offered' = offered \o data
                    /\ IF o.res = "err"
                       THEN /\ pc' = "err"
                            /\ UNCHANGED <<current, patches, iterations>>
                       ELSE /\ iterations' = iterations + 1
                            /\ current' = patches_next(patches).item
                            /\ patches' = patches_next(patches).rest
                            /\ pc' = IF patches_next(patches).item = None
                                     THEN "done" ELSE "new"
    /\ UNCHANGED <<source_buffer, source_iter, byte_cursor,
                   cc_start_byte_offset, cc_end_byte_offset, given, runvars>>
    /\ UNCHANGED racevars

\* ------------------------------------------------------------------ inputs

RECURSIVE SeqsUpTo(_, _)
SeqsUpTo(S, n) ==
    IF n = 0 THEN {<<>>}
    ELSE LET shorter == SeqsUpTo(S, n - 1)
         IN  shorter \cup {Append(s, x) : s \in shorter, x \in S}

Buffers == SeqsUpTo(Chars, MaxLen)

Positions == {LineColumn(l, c) : l \in 1..MaxLine, c \in 0..MaxCol}

Spans == {sp \in {Span(s, e) : s \in Positions, e \in Positions} :
            LcLeq(sp.start, sp.end)}

\* The payload of the k-th patch of a sequence: one distinct ASCII letter.
PayloadOf(k) == <<119 + k>>

PatchesAt(k) ==
    {Replace(sp, PayloadOf(k)) : sp \in Spans}
    \cup {Insert(p, PayloadOf(k)) : p \in Positions}

RECURSIVE PatchSeqs(_)
PatchSeqs(n) ==
    IF n = 0 THEN {<<>>}
    ELSE LET shorter == PatchSeqs(n - 1)
         IN  shorter \cup {Append(s, x) : s \in {t \in shorter : Len(t) = n - 1},
                                          x \in PatchesAt(n)}

\* No Action::run in progress: apply_patches is called on its own, as the
\* unit tests do.
RunIdle ==
    /\ action = "None"
    /\ suggestions = <<>>
    /\ user_sel = "None"
    /\ batch = <<>>
    /\ next_file = 0
    /\ run_pc = "idle"
    /\ finish = NoFinish
    /\ cf_pc = "idle"
    /\ path = "None"
    /\ bandaids = <<>>
    /\ original = fs
    /\ run_n = 0
    /\ started = {}
    /\ failed = {}
    /\ published = <<>>

\* The state at the top of apply_patches.
ApplyInit(buffer, ps, sk) ==
    /\ source_buffer = buffer
    /\ patches = ps
    /\ given = ps
    /\ source_iter = 0
    /\ current = None
    /\ byte_cursor = 0
    /\ cc_start_byte_offset = 0
    /\ cc_end_byte_offset = 0
    /\ sink = sk
    /\ pc = "new"
    /\ offered = <<>>
    /\ iterations = 0

\* apply_patches is not running.
ApplyIdle ==
    /\ source_buffer = <<>>
    /\ patches = <<>>
    /\ given = <<>>
    /\ source_iter = 0
    /\ current = None
    /\ byte_cursor = 0
    /\ cc_start_byte_offset = 0
    /\ cc_end_byte_offset = 0
    /\ sink = VecSink
    /\ pc = "idle"
    /\ offered = <<>>
    /\ iterations = 0

\* apply_patches on any buffer and any patch sequence, into a Vec<u8>.
InitPatch ==
    /\ \E buffer \in Buffers, ps \in PatchSeqs(MaxPatches) :
            ApplyInit(buffer, ps, VecSink)
    /\ fs = [p \in {TEMPORARY} |-> NoFile]
    /\ RunIdle
    /\ RaceIdle

NextPatch ==
    \/ ApplyNew
    \/ ApplyCc

SpecPatch == InitPatch /\ [][NextPatch]_vars

\* apply_patches on any buffer and exactly one patch, into a Vec<u8>.
InitSingle ==
    /\ \E buffer \in Buffers, p \in PatchesAt(1) :
            ApplyInit(buffer, <<p>>, VecSink)
    /\ fs = [p \in {TEMPORARY} |-> NoFile]
    /\ RunIdle
    /\ RaceIdle

SpecSingle == InitSingle /\ [][NextPatch]_vars

\* Most Inserts sharing one position.
MaxInserts == 2

InsertsAt(p, n) == [k \in 1..n |-> Insert(p, PayloadOf(k))]

\* Nothing, or one patch that starts at or behind p.
Followers(p, k) ==
    {<<>>}
    \cup {<<Replace(sp, PayloadOf(k))>> : sp \in {t \in Spans : LcLeq(p, t.start)}}
    \cup {<<Insert(q, PayloadOf(k))>> : q \in {t \in Positions : LcLess(p, t)}}

\* apply_patches on two or more Inserts at one position, with or without a
\* patch behind them, into a Vec<u8>.
InitInserts ==
    /\ \E buffer \in SeqsUpTo({NEWLINE, 97, 128032}, MaxLen),
          p \in Positions, n \in 2..MaxInserts :
         \E tail \in Followers(p, n + 1) :
            ApplyInit(buffer, InsertsAt(p, n) \o tail, VecSink)
    /\ fs = [p \in {TEMPORARY} |-> NoFile]
    /\ RunIdle
    /\ RaceIdle

SpecInserts == InitInserts /\ [][NextPatch]_vars

\* apply_patches into an arbitrary sink that obeys the Write contract.
InitSink ==
    /\ \E buffer \in Buffers, ps \in {<<>>} \cup {<<p>> : p \in PatchesAt(1)} :
            ApplyInit(buffer, ps, FaultySink)
    /\ fs = [p \in {TEMPORARY} |-> NoFile]
    /\ RunIdle
    /\ RaceIdle

SpecSink == InitSink /\ [][NextPatch]_vars

\* ------------------------------------------------------------------ files

Paths == {"a.md", "b.rs"}

\* enum ContentOrigin; a RustDocTest and a RustSourceFile may name one file.
CommonMarkFile(p) == [variant |-> "CommonMarkFile", path |-> p]

RustSourceFile(p) == [variant |-> "RustSourceFile", path |-> p]

RustDocTest(p) == [variant |-> "RustDocTest", path |-> p]

Origins == {CommonMarkFile("a.md"), RustSourceFile("b.rs"), RustDocTest("b.rs")}

\* write_changes_to_disk: every variant hands its path to correct_file.
OriginPath(origin) == origin.path

RECURSIVE Utf8Valid(_)
\* The bytes are the encodings of whole scalar values.
Utf8Valid(b) ==
    IF b = <<>> THEN TRUE
    ELSE LET w == len_utf8(b[1][1])
         IN  /\ Len(b) >= w
             /\ \A k \in 1..w : b[k] = <<b[1][1], k>>
             /\ Utf8Valid(SubSeq(b, w + 1, Len(b)))

RECURSIVE from_utf8(_)
\* The text of valid UTF-8 bytes.
from_utf8(b) ==
    IF b = <<>> THEN <<>>
    ELSE <<b[1][1]>> \o from_utf8(SubSeq(b, len_utf8(b[1][1]) + 1, Len(b)))

\* A suggestion: the span it addresses and its candidate replacements.
Suggestion(span, replacements) == [span |-> span, replacements |-> replacements]

RECURSIVE ReflowBandAidsLast(_)
\* Reflow that takes the last candidate of every suggestion.
ReflowBandAidsLast(ss) ==
    IF ss = <<>> THEN <<>>
    ELSE (IF Head(ss).replacements # <<>>
          THEN <<BandAid(Head(ss).span,
                         Head(ss).replacements[Len(Head(ss).replacements)])>>
          ELSE <<>>)
         \o ReflowBandAidsLast(Tail(ss))

RECURSIVE ReflowBandAids(_)
\* Reflow: one bandaid per suggestion that has a first replacement.
ReflowBandAids(ss) ==
    IF ss = <<>> THEN <<>>
    ELSE (IF Head(ss).replacements # <<>>
          THEN <<BandAid(Head(ss).span, Head(ss).replacements[1])>>
          ELSE <<>>)
         \o ReflowBandAids(Tail(ss))

ReflowBatch(sset) ==
    [i \in 1..Len(sset) |->
        [origin |-> sset[i].origin,
         bandaids |-> ReflowBandAids(sset[i].suggestions)]]

RECURSIVE Picks(_)
\* What the user may accept of one file's suggestions: for each suggestion
\* nothing, or one of its candidates.
Picks(ss) ==
    IF ss = <<>> THEN {<<>>}
    ELSE LET cands == Head(ss).replacements
             head == {<<>>} \cup {<<BandAid(Head(ss).span, cands[i])>> :
                                    i \in 1..Len(cands)}
         IN  {h \o t : h \in head, t \in Picks(Tail(ss))}

RECURSIVE UserPicked(_)
\* The UserPicked values select_interactive may return for a SuggestionSet.
UserPicked(sset) ==
    IF sset = <<>> THEN {<<>>}
    ELSE {<<[origin |-> Head(sset).origin, bandaids |-> b]>> \o t :
            b \in Picks(Head(sset).suggestions), t \in UserPicked(Tail(sset))}

RECURSIVE total_count(_)
\* UserPicked::total_count, SuggestionSet::total_count
total_count(picked) ==
    IF picked = <<>> THEN 0
    ELSE Len(Head(picked).bandaids) + total_count(Tail(picked))

\* A count of the files instead of their suggestions.
suggestion_count_files(sset) == Len(sset)

RECURSIVE suggestion_count(_)
\* Action::check: count += suggestions.len() for every file.
suggestion_count(sset) ==
    IF sset = <<>> THEN 0
    ELSE Len(Head(sset).suggestions) + suggestion_count(Tail(sset))

\* Fix that writes the picks whatever the user selected.
FixOutcomeIgnoringAbort(picked, sel) ==
    [finish |-> NoFinish,
     batch |-> IF total_count(picked) > 0 THEN picked ELSE <<>>,
     run_pc |-> "loop"]

\* Action::run, Self::Fix, behind select_interactive.
FixOutcome(picked, sel) ==
    IF sel = "Abort"
    THEN [finish |-> Abort, batch |-> <<>>, run_pc |-> "done"]
    ELSE [finish |-> NoFinish,
          batch |-> IF total_count(picked) > 0 THEN picked ELSE <<>>,
          run_pc |-> "loop"]

\* A batch that carries on with the next file when one fails.
AfterFileBestEffort(ok, k) ==
    [run_pc |-> "loop", next_file |-> k + 1, finish |-> NoFinish]

\* What the `?` behind write_changes_to_disk makes of correct_file's result
\* for the k-th pair of the batch.
AfterFile(ok, k) ==
    IF ok
    THEN [run_pc |-> "loop", next_file |-> k + 1, finish |-> NoFinish]
    ELSE [run_pc |-> "done", next_file |-> k, finish |-> Err]

Return(ok) ==
    /\ cf_pc' = "idle"
    /\ run_pc' = AfterFile(ok, next_file).run_pc
    /\ next_file' = AfterFile(ok, next_file).next_file
    /\ finish' = AfterFile(ok, next_file).finish
    /\ failed' = IF ok THEN failed ELSE failed \cup {next_file}

\* SuggestionSet::len: the number of entries of the file-to-suggestions map.
SuggestionSetLen(sset) == Len(sset)

\* Action::check
RunCheck ==
    /\ run_pc = "start"
    /\ action = "Check"
    /\ finish' = MistakeCount(suggestion_count(suggestions))
    /\ run_pc' = "done"
    /\ UNCHANGED <<apvars, sink, fs, action, suggestions, user_sel, batch,
                   next_file, cf_pc, path, bandaids, original, run_n, started,
                   failed, published>>
    /\ UNCHANGED racevars

\* Action::run, Self::Reflow, up to the loop over the files.
RunReflow ==
    /\ run_pc = "start"
    /\ action = "Reflow"
    /\ run_n' = SuggestionSetLen(suggestions)
    /\ batch' = ReflowBatch(suggestions)
    /\ next_file' = 1
    /\ run_pc' = "loop"
    /\ UNCHANGED <<apvars, sink, fs, action, suggestions, user_sel, finish,
                   cf_pc, path, bandaids, original, started, failed, published>>
    /\ UNCHANGED racevars

\* Action::run, Self::Fix, up to the loop over the files.
RunFix ==
    /\ run_pc = "start"
    /\ action = "Fix"
    /\ \/ \* select_interactive(..)? fails
          /\ finish' = Err
          /\ run_pc' = "done"
          /\ UNCHANGED <<user_sel, batch, next_file, run_n>>
       \/ \E picked \in UserPicked(suggestions), sel \in {"Abort", "Quit"} :
            /\ user_sel' = sel
            /\ run_n' = IF sel = "Abort" THEN run_n ELSE total_count(picked)
            /\ batch' = FixOutcome(picked, sel).batch
            /\ finish' = FixOutcome(picked, sel).finish
            /\ run_pc' = FixOutcome(picked, sel).run_pc
            /\ next_file' = 1
    /\ UNCHANGED <<apvars, sink, fs, action, suggestions, cf_pc, path,
                   bandaids, original, started, failed, published>>
    /\ UNCHANGED racevars

\* The head of the loop over the batch: hand the next pair to
\* write_changes_to_disk, or return the count.
NextFile ==
    /\ run_pc = "loop"
    /\ cf_pc = "idle"
    /\ IF next_file > Len(batch)
       THEN /\ finish' = MistakeCount(run_n)
            /\ run_pc' = "done"
            /\ UNCHANGED <<cf_pc, path, bandaids, started>>
       ELSE /\ cf_pc' = "canonicalize"
            /\ path' = OriginPath(batch[next_file].origin)
            /\ bandaids' = batch[next_file].bandaids
            /\ started' = started \cup {next_file}
            /\ UNCHANGED <<finish, run_pc>>
    /\ UNCHANGED <<apvars, sink, fs, action, suggestions, user_sel, batch,
                   next_file, original, run_n, failed, published>>
    /\ UNCHANGED racevars

\* path.canonicalize()
Canonicalize ==
    /\ run_pc = "loop"
    /\ cf_pc = "canonicalize"
    /\ \/ /\ fs[path] # NoFile
          /\ cf_pc' = "open"
          /\ UNCHANGED <<run_pc, next_file, finish, failed>>
       \/ Return(FALSE)
    /\ UNCHANGED <<apvars, sink, fs, action, suggestions, user_sel, batch,
                   path, bandaids, original, run_n, started, published>>
    /\ UNCHANGED racevars

\* OpenOptions::new().read(true).open(path)
OpenRead ==
    /\ run_pc = "loop"
    /\ cf_pc = "open"
    /\ \/ /\ cf_pc' = "create"
          /\ UNCHANGED <<run_pc, next_file, finish, failed>>
       \/ Return(FALSE)
    /\ UNCHANGED <<apvars, sink, fs, action, suggestions, user_sel, batch,
                   path, bandaids, original, run_n, started, published>>
    /\ UNCHANGED racevars

\* OpenOptions::new().write(true).truncate(true).create(true).open(&tmp),
\* and the BufWriter over it.
CreateTemporary ==
    /\ run_pc = "loop"
    /\ cf_pc = "create"
    /\ \/ /\ fs' = [fs EXCEPT ![TEMPORARY] = File(<<>>)]
          /\ sink' = BufWriterSink
          /\ cf_pc' = "read"
          /\ UNCHANGED <<run_pc, next_file, finish, failed>>
       \/ /\ Return(FALSE)
          /\ UNCHANGED <<fs, sink>>
    /\ UNCHANGED <<apvars, action, suggestions, user_sel, batch,
                   path, bandaids, original, run_n, started, published>>
    /\ UNCHANGED racevars

Map(f(_), seq) == [i \in 1..Len(seq) |-> f(seq[i])]

\* read_to_string, then the call of apply_patches on the patches made of
\* the bandaids.
ReadToString ==
    /\ run_pc = "loop"
    /\ cf_pc = "read"
    /\ \/ /\ Utf8Valid(fs[path].bytes)
          /\ source_buffer' = from_utf8(fs[path].bytes)
          /\ patches' = Map(PatchFrom, bandaids)
          /\ given' = Map(PatchFrom, bandaids)
          /\ source_iter' = 0
          /\ current' = None
          /\ byte_cursor' = 0
          /\ cc_start_byte_offset' = 0
          /\ cc_end_byte_offset' = 0
          /\ pc' = "new"
          /\ offered' = <<>>
          /\ iterations' = 0
          /\ cf_pc' = "apply"
          /\ UNCHANGED <<run_pc, next_file, finish, failed>>
       \/ /\ Return(FALSE)
          /\ UNCHANGED apvars
    /\ UNCHANGED <<sink, fs, action, suggestions, user_sel, batch,
                   path, bandaids, original, run_n, started, published>>
    /\ UNCHANGED racevars

\* apply_patches(..)? returned the error: the BufWriter is dropped, which
\* tries once more to write its buffer out.
ApplyFailed ==
    /\ run_pc = "loop"
    /\ cf_pc = "apply"
    /\ pc = "err"
    /\ \E o \in FlushBuf(sink, TmpContent) : SetSink(o)
    /\ Return(FALSE)
    /\ UNCHANGED <<apvars, action, suggestions, user_sel, batch,
                   path, bandaids, original, run_n, started, published>>
    /\ UNCHANGED racevars

\* writer.flush()?
Flush ==
    /\ run_pc = "loop"
    /\ cf_pc = "apply"
    /\ pc = "done"
    /\ \E o \in FlushBuf(sink, TmpContent) :
          IF o.res = "ok"
          THEN /\ SetSink(o)
               /\ cf_pc' = "rename"
               /\ UNCHANGED <<run_pc, next_file, finish, failed>>
          ELSE /\ \E d \in FlushBuf(o.sink, o.file) : SetSink(d)
               /\ Return(FALSE)
    /\ UNCHANGED <<apvars, action, suggestions, user_sel, batch,
                   path, bandaids, original, run_n, started, published>>
    /\ UNCHANGED racevars

\* fs::rename(tmp, path)?
Rename ==
    /\ run_pc = "loop"
    /\ cf_pc = "rename"
    /\ \/ /\ fs' = [fs EXCEPT ![path] = fs[TEMPORARY], ![TEMPORARY] = NoFile]
          /\ published' = Append(published,
                                 [path |-> path, bytes |-> fs[TEMPORARY].bytes,
                                  merged |-> offered])
          /\ Return(TRUE)
       \/ /\ Return(FALSE)
          /\ UNCHANGED <<fs, published>>
    /\ UNCHANGED <<apvars, sink, action, suggestions, user_sel, batch,
                   path, bandaids, original, run_n, started>>
    /\ UNCHANGED racevars

\* The process is killed.
Crash ==
    /\ run_pc \in {"start", "loop"}
    /\ run_pc' = "crashed"
    /\ UNCHANGED <<apvars, sink, fs, action, suggestions, user_sel, batch,
                   next_file, finish, cf_pc, path, bandaids, original, run_n,
                   started, failed, published>>
    /\ UNCHANGED racevars

\* Most files in a SuggestionSet, most suggestions per file.
MaxFiles == 2

MaxSuggestions == 2

Suggestions ==
    {Suggestion(Span(LineColumn(1, 0), LineColumn(1, 0)), <<<<120>>>>),
     Suggestion(Span(LineColumn(1, 0), LineColumn(1, 1)), <<<<121>>, <<122>>>>),
     Suggestion(Span(LineColumn(2, 0), LineColumn(2, 0)), <<>>)}

\* Sorted by start, no span reaching into the next one.
SuggestionSeqs ==
    {ss \in SeqsUpTo(Suggestions, MaxSuggestions) :
        \A i, j \in 1..Len(ss) :
            i < j => /\ LcLeq(ss[i].span.start, ss[j].span.start)
                     /\ ss[i] # ss[j]
                     /\ \/ ss[i].span.start = ss[i].span.end
                        \/ LcLess(ss[i].span.end, ss[j].span.start)}

Entries == {[origin |-> o, suggestions |-> ss] : o \in Origins, ss \in SuggestionSeqs}

\* A SuggestionSet is a map: no origin twice.
SuggestionSets ==
    {sset \in SeqsUpTo(Entries, MaxFiles) :
        \A i, j \in 1..Len(sset) : i < j => sset[i].origin # sset[j].origin}

\* A text of two lines, and bytes that are no UTF-8.
FileContents == {as_bytes(<<97, NEWLINE, 233>>), <<<<233, 2>>>>}

\* What an earlier, failed materialization may have left in the temporary
\* file.
StaleBytes == as_bytes(<<115>>)

Init ==
    /\ action \in {"Check", "Fix", "Reflow"}
    /\ suggestions \in SuggestionSets
    /\ \E f \in [Paths -> {File(b) : b \in FileContents} \cup {NoFile}],
          t \in {NoFile, File(StaleBytes)} :
            fs = [p \in Paths \cup {TEMPORARY} |->
                    IF p = TEMPORARY THEN t ELSE f[p]]
    /\ original = fs
    /\ user_sel = "None"
    /\ batch = <<>>
    /\ next_file = 0
    /\ run_pc = "start"
    /\ finish = NoFinish
    /\ cf_pc = "idle"
    /\ path = "None"
    /\ bandaids = <<>>
    /\ run_n = 0
    /\ started = {}
    /\ failed = {}
    /\ published = <<>>
    /\ RaceIdle
    /\ source_buffer = <<>>
    /\ patches = <<>>
    /\ given = <<>>
    /\ source_iter = 0
    /\ current = None
    /\ byte_cursor = 0
    /\ cc_start_byte_offset = 0
    /\ cc_end_byte_offset = 0
    /\ sink = VecSink
    /\ pc = "idle"
    /\ offered = <<>>
    /\ iterations = 0

Next ==
    \/ RunCheck
    \/ RunReflow
    \/ RunFix
    \/ NextFile
    \/ Canonicalize
    \/ OpenRead
    \/ CreateTemporary
    \/ ReadToString
    \/ ApplyNew
    \/ ApplyCc
    \/ ApplyFailed
    \/ Flush
    \/ Rename
    \/ Crash

Spec == Init /\ [][Next]_vars

\* ------------------------------------------------------------------ two invocations

RECURSIVE MergeFrom(_, _, _, _, _)
\* The bytes the passes of apply_patches's loop hand to a sink that takes
\* them all, from the pass that emits `cur` on.
MergeFrom(buffer, cur, ps, it, cursor) ==
    LET items == iter_with_line_column_from(buffer, LineColumn(1, 0))
        skipped == IF cur = None \/ cur.kind = "Insert"
                   THEN [iter |-> it, off |-> cursor]
                   ELSE SkipLoop(items, it, cur.replace_span.end, cursor)
        copied == IF ps # <<>>
                  THEN CcLoop(items, skipped.iter, PatchStart(Head(ps)),
                              skipped.off)
                  ELSE [iter |-> skipped.iter, off |-> str_len(buffer)]
        cc_end == Min(copied.off, str_len(buffer))
        out == (IF cur = None THEN <<>> ELSE as_bytes(Payload(cur)))
               \o Slice(buffer, skipped.off, cc_end)
    IN  IF patches_next(ps).item = None THEN out
        ELSE out \o MergeFrom(buffer, patches_next(ps).item,
                              patches_next(ps).rest, copied.iter, cc_end)

\* apply_patches(patches, source_buffer, sink): what the sink is handed.
Merged(buffer, ps) == MergeFrom(buffer, None, ps, 0, 0)

\* The two processes that run correct_file in one working directory.
Invocations == {1, 2}

\* A directory entry that names no inode.
NoInode == <<>>

\* The byte a hole in a file reads as.
Hole == <<0, 1>>

\* The file a path names.
FileAt(name) ==
    IF dir[name] = NoInode THEN NoFile ELSE File(inodes[dir[name][1]])

\* write(2) of d at offset o of a file that holds b.
WriteAt(b, o, d) ==
    LET padded == IF Len(b) < o
                  THEN b \o [i \in 1..(o - Len(b)) |-> Hole] ELSE b
    IN  SubSeq(padded, 1, o) \o d
        \o SubSeq(padded, o + Len(d) + 1, Len(padded))

\* An open that leaves the bytes of an existing file in place.
NotTruncated(b) == b

\* OpenOptions::truncate(true): an existing file is opened with length 0.
Truncated(b) == <<>>

\* The locals of one correct_file call: ro and wr are the inodes behind the
\* two open files, offset is the position of wr, out is what apply_patches
\* produces.
Frame(target, edits, before) ==
    [pc |-> "open", path |-> target, bandaids |-> edits, original |-> before,
     ro |-> NoInode, wr |-> NoInode, offset |-> 0, out |-> NoFile,
     why |-> "none"]

\* The temporary file is open for writing.
InWindow(f) == f.pc \in {"read", "write", "rename"}

\* Invocation p moves on to frame f.
Step(p, f) ==
    /\ procs' = [procs EXCEPT ![p] = f]
    /\ overlapped' = (overlapped
                        \/ \A q \in Invocations :
                              InWindow(IF q = p THEN f ELSE procs[q]))

\* canonicalize the path and open it for reading
RaceOpen(p) ==
    /\ procs[p].pc = "open"
    /\ IF dir[procs[p].path] = NoInode
       THEN Step(p, [procs[p] EXCEPT !.pc = "err", !.why = "open"])
       ELSE Step(p, [procs[p] EXCEPT !.pc = "create",
                                     !.ro = dir[procs[p].path]])
    /\ UNCHANGED <<dir, inodes, apvars, sink, fs, runvars>>

\* open the temporary path with write, truncate and create
RaceCreateTemporary(p) ==
    /\ procs[p].pc = "create"
    /\ IF dir[TEMPORARY] = NoInode
       THEN /\ inodes' = Append(inodes, <<>>)
            /\ dir' = [dir EXCEPT ![TEMPORARY] = <<Len(inodes) + 1>>]
       ELSE /\ inodes' = [inodes EXCEPT ![dir[TEMPORARY][1]] = Truncated(@)]
            /\ dir' = dir
    /\ Step(p, [procs[p] EXCEPT !.pc = "read", !.wr = dir'[TEMPORARY],
                                !.offset = 0])
    /\ UNCHANGED <<apvars, sink, fs, runvars>>

\* read_to_string, and the merge of the patches into the content
RaceRead(p) ==
    /\ procs[p].pc = "read"
    /\ LET bytes == inodes[procs[p].ro[1]]
           out == Merged(from_utf8(bytes), Map(PatchFrom, procs[p].bandaids))
       IN  IF ~Utf8Valid(bytes)
           THEN Step(p, [procs[p] EXCEPT !.pc = "err", !.why = "read"])
           ELSE Step(p, [procs[p] EXCEPT
                            !.pc = IF out = <<>> THEN "rename" ELSE "write",
                            !.out = File(out)])
    /\ UNCHANGED <<dir, inodes, apvars, sink, fs, runvars>>

\* the BufWriter hands the next part of the output to the temporary file
RaceWrite(p) ==
    /\ procs[p].pc = "write"
    /\ \E k \in 1..(Len(procs[p].out.bytes) - procs[p].offset) :
          LET part == SubSeq(procs[p].out.bytes, procs[p].offset + 1,
                             procs[p].offset + k)
          IN  /\ inodes' = [inodes EXCEPT ![procs[p].wr[1]] =
                                WriteAt(@, procs[p].offset, part)]
              /\ Step(p, [procs[p] EXCEPT
                            !.offset = @ + k,
                            !.pc = IF procs[p].offset + k
                                        = Len(procs[p].out.bytes)
                                   THEN "rename" ELSE "write"])
    /\ UNCHANGED <<dir, apvars, sink, fs, runvars>>

\* fs::rename(tmp, path)?
RaceRename(p) ==
    /\ procs[p].pc = "rename"
    /\ IF dir[TEMPORARY] = NoInode
       THEN /\ Step(p, [procs[p] EXCEPT !.pc = "err", !.why = "rename"])
            /\ dir' = dir
       ELSE /\ Step(p, [procs[p] EXCEPT !.pc = "ok"])
            /\ dir' = [dir EXCEPT ![procs[p].path] = dir[TEMPORARY],
                                  ![TEMPORARY] = NoInode]
    /\ UNCHANGED <<inodes, apvars, sink, fs, runvars>>

\* What the two targets may hold, and what a failed run may have left in the
\* temporary file.
RaceContents == {as_bytes(<<97, NEWLINE>>), as_bytes(<<233>>), <<<<233, 2>>>>}

RaceStale == StaleBytes \o StaleBytes \o StaleBytes \o StaleBytes

RaceBandAids ==
    {<<>>,
     <<BandAid(Span(LineColumn(1, 0), LineColumn(1, 0)), <<120>>)>>,
     <<BandAid(Span(LineColumn(1, 0), LineColumn(1, 1)), <<121>>)>>}

InitRace ==
    /\ \E a, b \in {File(c) : c \in RaceContents} \cup {NoFile},
          t \in {NoFile, File(RaceStale)}, ea, eb \in RaceBandAids :
         /\ inodes = <<a.bytes, b.bytes, t.bytes>>
         /\ dir = [name \in Paths \cup {TEMPORARY} |->
                     CASE name = "a.md" -> IF a.exists THEN <<1>> ELSE NoInode
                       [] name = "b.rs" -> IF b.exists THEN <<2>> ELSE NoInode
                       [] OTHER -> IF t.exists THEN <<3>> ELSE NoInode]
         /\ procs = <<Frame("a.md", ea, a), Frame("b.rs", eb, b)>>
    /\ overlapped = FALSE
    /\ ApplyIdle
    /\ fs = [p \in {TEMPORARY} |-> NoFile]
    /\ RunIdle

NextRace ==
    \E p \in Invocations :
        \/ RaceOpen(p)
        \/ RaceCreateTemporary(p)
        \/ RaceRead(p)
        \/ RaceWrite(p)
        \/ RaceRename(p)

SpecRace == InitRace /\ [][NextRace]_vars

\* ------------------------------------------------------------------ reference

\* The position of the i-th scalar of the buffer.
PosOf(buffer, i) == LineColAt(buffer, LineColumn(1, 0), i)

\* Some scalar of the buffer is at position p.
Addresses(buffer, p) == \E i \in 1..Len(buffer) : PosOf(buffer, i) = p

\* The index of the first scalar at or behind p; Len + 1 if there is none.
SlotOf(buffer, p) ==
    LET at == {i \in 1..Len(buffer) : LcGeq(PosOf(buffer, i), p)}
    IN  IF at = {} THEN Len(buffer) + 1
        ELSE CHOOSE i \in at : \A j \in at : i <= j

\* The i-th scalar lies in the span of some Replace of ps.
Covered(buffer, ps, i) ==
    \E k \in 1..Len(ps) :
        /\ ps[k].kind = "Replace"
        /\ LcLeq(ps[k].replace_span.start, PosOf(buffer, i))
        /\ LcLeq(PosOf(buffer, i), ps[k].replace_span.end)

RECURSIVE PayloadsAt(_, _, _)
\* The payloads of the patches of ps that start at slot i, in ps's order.
PayloadsAt(buffer, ps, i) ==
    IF ps = <<>> THEN <<>>
    ELSE (IF SlotOf(buffer, PatchStart(Head(ps))) = i
          THEN Payload(Head(ps)) ELSE <<>>)
         \o PayloadsAt(buffer, Tail(ps), i)

RECURSIVE ReferenceFrom(_, _, _)
ReferenceFrom(buffer, ps, i) ==
    IF i > Len(buffer) + 1 THEN <<>>
    ELSE PayloadsAt(buffer, ps, i)
         \o (IF i <= Len(buffer) /\ ~Covered(buffer, ps, i)
             THEN <<buffer[i]>> ELSE <<>>)
         \o ReferenceFrom(buffer, ps, i + 1)

\* The patched text, scalar by scalar: at each scalar the payloads of the
\* patches that start there, then the scalar itself unless a Replace covers it.
Reference(buffer, ps) == ReferenceFrom(buffer, ps, 1)

\* The caller's contract: ascending by start, Replace spans disjoint.
SortedByStart(ps) ==
    \A i, j \in 1..Len(ps) :
        i < j => LcLeq(PatchStart(ps[i]), PatchStart(ps[j]))

NoOverlap(ps) ==
    \A i, j \in 1..Len(ps) :
        (i < j /\ ps[i].kind = "Replace" /\ ps[j].kind = "Replace")
            => LcLess(ps[i].replace_span.end, ps[j].replace_span.start)

\* ------------------------------------------------------------------ claims

\* C1: for every buffer and every patch sequence sorted by start with
\* disjoint Replace spans, apply_patches returns Ok and the sink holds the
\* reference result.
C1_MergeEqualsReference ==
    (pc \in {"done", "err", "panic"} /\ SortedByStart(given) /\ NoOverlap(given))
        => (pc = "done" /\ sink.data = as_bytes(Reference(source_buffer, given)))

\* C1 holds when the end of every Replace span addresses a scalar of the
\* buffer or lies behind the last one.
EndAddressed ==
    \A k \in 1..Len(given) :
        given[k].kind = "Replace"
            => \/ Addresses(source_buffer, given[k].replace_span.end)
               \/ SlotOf(source_buffer, given[k].replace_span.end)
                     = Len(source_buffer) + 1

MergeEqualsReferenceWhenEndAddressed ==
    (pc \in {"done", "err", "panic"} /\ SortedByStart(given) /\ NoOverlap(given)
       /\ EndAddressed)
        => (pc = "done" /\ sink.data = as_bytes(Reference(source_buffer, given)))

Terminated == pc \in {"done", "err", "panic"}

\* The scalars of the buffer at the indices in I, from the i-th on.
RECURSIVE Select(_, _, _)
Select(buffer, i, I) ==
    IF i > Len(buffer) THEN <<>>
    ELSE (IF i \in I THEN <<buffer[i]>> ELSE <<>>) \o Select(buffer, i + 1, I)

\* C2: for a single Replace with span [S,E], S <= E, the output is the
\* scalars before S, the replacement, then the scalars behind E: just the
\* scalars with S <= position <= E are removed.
C2_SingleReplace ==
    (Terminated /\ Len(given) = 1 /\ given[1].kind = "Replace")
        => LET S == given[1].replace_span.start
               E == given[1].replace_span.end
               Before == {i \in 1..Len(source_buffer) :
                            LcLess(PosOf(source_buffer, i), S)}
               Behind == {i \in 1..Len(source_buffer) :
                            LcLess(E, PosOf(source_buffer, i))}
           IN  /\ pc = "done"
               /\ sink.data = as_bytes(Select(source_buffer, 1, Before)
                                        \o given[1].replacement
                                        \o Select(source_buffer, 1, Behind))

\* C3: for a single Insert at P with content C the output is the buffer
\* with C spliced in before the first scalar at or behind P; at (1,0) C is
\* a prefix of the output, behind the last scalar C is appended.
C3_SingleInsert ==
    (Terminated /\ Len(given) = 1 /\ given[1].kind = "Insert")
        => LET P == given[1].insert_at
               C == given[1].content
               slot == SlotOf(source_buffer, P)
               n == Len(source_buffer)
           IN  /\ pc = "done"
               /\ sink.data = as_bytes(SubSeq(source_buffer, 1, slot - 1) \o C
                                        \o SubSeq(source_buffer, slot, n))
               /\ P = LineColumn(1, 0)
                    => sink.data = as_bytes(C \o source_buffer)
               /\ (\A i \in 1..n : LcLess(PosOf(source_buffer, i), P))
                    => sink.data = as_bytes(source_buffer \o C)

C3_Witness ==
    /\ pc = "done"
    /\ Len(given) = 1
    /\ given[1].kind = "Insert"
    /\ given[1].insert_at = LineColumn(1, 1)
    /\ Len(source_buffer) = 3
    /\ source_buffer[2] = 128032
    /\ sink.data = as_bytes(<<source_buffer[1]>> \o given[1].content
                             \o Tail(source_buffer))

\* C5: every byte offset apply_patches slices the buffer with is the start
\* of a scalar or the buffer length, and a Replace whose span is exactly one
\* multi-byte scalar removes all bytes of that scalar and no other byte.
C5_ScalarBoundaries ==
    /\ pc # "panic"
    /\ is_char_boundary(source_buffer, byte_cursor)
    /\ is_char_boundary(source_buffer, cc_start_byte_offset)
    /\ is_char_boundary(source_buffer, cc_end_byte_offset)
    /\ \A i \in 1..Len(source_buffer) :
          (/\ pc = "done"
           /\ len_utf8(source_buffer[i]) > 1
           /\ given = <<Replace(Span(PosOf(source_buffer, i),
                                     PosOf(source_buffer, i)), PayloadOf(1))>>)
            => sink.data = as_bytes(SubSeq(source_buffer, 1, i - 1))
                           \o as_bytes(PayloadOf(1))
                           \o as_bytes(SubSeq(source_buffer, i + 1,
                                               Len(source_buffer)))

C5_Witness ==
    /\ pc = "done"
    /\ source_buffer = <<97, 128032, 233>>
    /\ given = <<Replace(Span(LineColumn(1, 1), LineColumn(1, 1)), PayloadOf(1))>>
    /\ sink.data = as_bytes(<<97, 120, 233>>)

\* The Inserts of `given` that share their position with another Insert.
CoLocated ==
    {k \in 1..Len(given) :
        /\ given[k].kind = "Insert"
        /\ \E j \in 1..Len(given) :
              j # k /\ given[j].kind = "Insert"
                    /\ given[j].insert_at = given[k].insert_at}

RECURSIVE JoinContents(_, _)
JoinContents(ps, ks) ==
    IF ps = <<>> THEN <<>>
    ELSE (IF Len(given) - Len(ps) + 1 \in ks THEN Payload(Head(ps)) ELSE <<>>)
         \o JoinContents(Tail(ps), ks)

Occurrences(bytes, b) == Cardinality({i \in 1..Len(bytes) : bytes[i] = b})

\* C6: Inserts that share one insert_at are emitted contiguously, in the
\* order of the patch sequence, each exactly once, also when a Replace that
\* starts at that position follows them.
C6_CoLocatedInserts ==
    (Terminated /\ CoLocated # {})
        => LET joined == as_bytes(JoinContents(given, CoLocated))
           IN  /\ pc = "done"
               /\ \E i \in 1..(Len(sink.data) - Len(joined) + 1) :
                     SubSeq(sink.data, i, i + Len(joined) - 1) = joined
               /\ \A j \in 1..Len(joined) :
                     Occurrences(sink.data, joined[j]) = 1

C6_Witness ==
    /\ pc = "done"
    /\ Len(given) = 3
    /\ Len(source_buffer) = 3
    /\ given[1].insert_at = LineColumn(1, 1)
    /\ given[3].kind = "Replace"
    /\ given[3].replace_span.start = LineColumn(1, 1)
    /\ given[3].replace_span.end = LineColumn(1, 1)
    /\ sink.data = as_bytes(<<source_buffer[1]>> \o PayloadOf(1) \o PayloadOf(2)
                             \o PayloadOf(3) \o <<source_buffer[3]>>)

\* C7: apply_patches returns Ok only if the sink has accepted every byte of
\* the corrected stream, in order.
C7_OkMeansAllAccepted ==
    (pc = "done" /\ sink.kind = "faulty") => sink.data = offered

\* The records of `published` that name path p.
PublishedAt(p) == SelectSeq(published, LAMBDA r : r.path = p)

\* What the last rename onto p put there, or p's file when run was called.
LastPublished(p) ==
    IF PublishedAt(p) = <<>> THEN original[p]
    ELSE File(PublishedAt(p)[Len(PublishedAt(p))].bytes)

\* The whole stream the last merge for p produced, or p's file when run was
\* called.
LastMerged(p) ==
    IF PublishedAt(p) = <<>> THEN original[p]
    ELSE File(PublishedAt(p)[Len(PublishedAt(p))].merged)

\* C4: up to the rename, whatever step fails or is interrupted, the target
\* holds its original bytes; after the rename it holds the complete corrected
\* content; no other content is ever seen in the target.
C4_OriginalOrCorrected == \A p \in Paths : fs[p] = LastMerged(p)

\* The target changes by the rename alone: it holds what it held when run
\* was called, or what the last rename onto it moved there.
TargetChangesByRenameOnly == \A p \in Paths : fs[p] = LastPublished(p)

\* C8: files are materialized one at a time in the order supplied; when the
\* k-th fails, run returns the error, no later file is touched, the files
\* before k keep what was published, nothing is retried or rolled back.
C8_FailFast ==
    /\ started = 1..Cardinality(started)
    /\ Len(published) <= Cardinality(started)
    /\ \A j \in 1..Len(published) : published[j].path = OriginPath(batch[j].origin)
    /\ failed # {}
        => /\ finish = Err
           /\ run_pc = "done"
           /\ cf_pc = "idle"
           /\ failed = {next_file}
           /\ started = 1..next_file
           /\ Len(published) = next_file - 1
           /\ \A p \in Paths : fs[p] = LastPublished(p)
           /\ \A p \in Paths :
                 (\A j \in 1..next_file : OriginPath(batch[j].origin) # p)
                    => fs[p] = original[p]

C8_Witness ==
    /\ failed = {2}
    /\ finish = Err
    /\ Len(batch) = 2
    /\ OriginPath(batch[1].origin) # OriginPath(batch[2].origin)
    /\ fs[OriginPath(batch[1].origin)] # original[OriginPath(batch[1].origin)]
    /\ fs[OriginPath(batch[2].origin)] = original[OriginPath(batch[2].origin)]
    /\ original[OriginPath(batch[2].origin)] # NoFile

\* C9: in Fix mode, when the picker returns Abort, run returns Finish::Abort
\* and no file and no temporary file is created, written or renamed; an abort
\* never takes effect once a file has been handed to correct_file.
C9_AbortTouchesNothing ==
    /\ user_sel = "Abort"
        => /\ finish = Abort
           /\ run_pc = "done"
           /\ fs = original
           /\ started = {}
           /\ published = <<>>
    /\ finish = Abort => (action = "Fix" /\ user_sel = "Abort")

C9_Witness ==
    /\ action = "Fix"
    /\ user_sel = "Abort"
    /\ finish = Abort
    /\ suggestion_count(suggestions) = 2
    /\ \A p \in Paths : Utf8Valid(fs[p].bytes) /\ fs[p] # NoFile

Degenerate(b) == b.span.start = b.span.end

\* C10: an Edit becomes Insert{span.start, content} exactly when its span's
\* start equals its end and Replace{span, content} otherwise; an Edit whose
\* span addresses one character removes no character when materialized.
C10_EditToPatch ==
    (cf_pc = "apply")
        => /\ Len(given) = Len(bandaids)
           /\ \A i \in 1..Len(bandaids) :
                 IF bandaids[i].span.start = bandaids[i].span.end
                 THEN given[i] = Insert(bandaids[i].span.start, bandaids[i].content)
                 ELSE given[i] = Replace(bandaids[i].span, bandaids[i].content)
           /\ (pc = "done" /\ \A i \in 1..Len(bandaids) : Degenerate(bandaids[i]))
                 => offered = as_bytes(Reference(source_buffer,
                        [i \in 1..Len(bandaids) |->
                            Insert(bandaids[i].span.start, bandaids[i].content)]))

C10_Witness ==
    /\ cf_pc = "apply"
    /\ pc = "done"
    /\ bandaids = <<BandAid(Span(LineColumn(1, 0), LineColumn(1, 0)), <<120>>)>>
    /\ given = <<Insert(LineColumn(1, 0), <<120>>)>>
    /\ offered = as_bytes(<<120, 97, NEWLINE, 233>>)

\* C11: applying the empty patch sequence to any buffer, the empty one
\* included, writes exactly the buffer to the sink and returns Ok after a
\* single pass of the loop.
C11_EmptyPatchesIdentity ==
    /\ (given = <<>> /\ pc \in {"new", "cc"})
          => (iterations = 0 /\ sink.data = <<>>)
    /\ (given = <<>> /\ Terminated)
          => /\ pc = "done"
             /\ iterations = 1
             /\ sink.data = as_bytes(source_buffer)
             /\ offered = as_bytes(source_buffer)

C11_Witness ==
    /\ pc = "done"
    /\ given = <<>>
    /\ source_buffer = <<97, NEWLINE, 8364>>
    /\ iterations = 1
    /\ sink.data = as_bytes(<<97, NEWLINE, 8364>>)

\* The (file, suggestion) pairs of a SuggestionSet.
SuggestionSlots(sset) ==
    {ij \in (1..Len(sset)) \X (1..MaxSuggestions) :
        ij[2] <= Len(sset[ij[1]].suggestions)}

\* C12: in Check mode run never creates, writes or renames a file, the
\* temporary file included, and returns Finish::MistakeCount(n) with n the
\* number of suggestions summed over all files of the suggestion set.
C12_CheckIsReadOnly ==
    action = "Check"
        => /\ fs = original
           /\ started = {}
           /\ published = <<>>
           /\ cf_pc = "idle"
           /\ pc = "idle"
           /\ finish \in {NoFinish,
                          MistakeCount(Cardinality(SuggestionSlots(suggestions)))}
           /\ run_pc = "done" => finish # NoFinish

C12_Witness ==
    /\ action = "Check"
    /\ run_pc = "done"
    /\ Len(suggestions) = 2
    /\ finish = MistakeCount(3)
    /\ \A p \in Paths : fs[p] # NoFile

\* The suggestions of ss that carry at least one candidate replacement.
WithCandidate(ss) == SelectSeq(ss, LAMBDA s : s.replacements # <<>>)

\* One edit per suggestion of ss: its first candidate over its span.
FirstCandidateEdits(ss) ==
    [j \in 1..Len(ss) |-> BandAid(ss[j].span, ss[j].replacements[1])]

EditsHandedOver ==
    {ij \in started \X (1..MaxSuggestions) : ij[2] <= Len(batch[ij[1]].bandaids)}

\* C14: when run completes without abort in Fix or Reflow mode, the n of the
\* returned Finish::MistakeCount(n) is the number of edits materialized to
\* disk during the run.
C14_CountIsEditsMaterialized ==
    (action \in {"Fix", "Reflow"} /\ finish.kind = "MistakeCount")
        => /\ finish.count = Cardinality(EditsHandedOver)
           /\ Len(published) = Cardinality(started)

\* In Fix mode the count is the number of edits materialized.
FixCountIsEditsMaterialized ==
    (action = "Fix" /\ finish.kind = "MistakeCount")
        => /\ finish.count = Cardinality(EditsHandedOver)
           /\ Len(published) = Cardinality(started)

\* The pair of the batch handed over last has been materialized.
Materialized ==
    /\ cf_pc = "idle"
    /\ failed = {}
    /\ published # <<>>

\* C15: after a successful correct_file the temporary file no longer exists
\* and the target holds exactly the merge of its own content and edits,
\* whatever a stray temporary file of an earlier failure held.
C15_NoStaleBytes ==
    Materialized
        => /\ fs[TEMPORARY] = NoFile
           /\ LET r == published[Len(published)]
              IN  fs[r.path] = File(r.merged)

\* No byte of a stray temporary file ever reaches a target, and a successful
\* correct_file leaves no temporary file behind.
StaleBytesNeverReachTarget ==
    /\ \A p \in Paths : \A i \in 1..Len(fs[p].bytes) :
          \A j \in 1..Len(StaleBytes) : fs[p].bytes[i] # StaleBytes[j]
    /\ Materialized => fs[TEMPORARY] = NoFile

\* Merged is what the loop of apply_patches offers its sink.
MergedIsWhatTheLoopOffers ==
    pc = "done" => offered = Merged(source_buffer, given)

\* The target of invocation p holds neither what it held at the start nor
\* the output of p's own merge.
TargetCorrupted(p) ==
    /\ FileAt(procs[p].path) # procs[p].original
    /\ FileAt(procs[p].path) # procs[p].out

\* Invocation p's rename found no temporary file.
TemporaryGone(p) == procs[p].pc = "err" /\ procs[p].why = "rename"

\* C16: two invocations of correct_file on different targets in one working
\* directory share the temporary path with no mutual exclusion: both may have
\* the temporary file open at one time, and a target that holds neither its
\* original nor its own corrected content, or a rename that finds the
\* temporary file gone, comes about by such an overlap and in no other way.
C16_TemporaryPathRace ==
    /\ \A p \in Invocations :
          (TargetCorrupted(p) \/ TemporaryGone(p)) => overlapped
    /\ ~overlapped
          => \A p \in Invocations :
                procs[p].pc = "ok" => FileAt(procs[p].path) = procs[p].out

\* Invocation 1 has renamed, invocation 2 then wrote through its open file
\* into what is now invocation 1's target, and found no temporary file to
\* rename.
C16_Witness ==
    /\ overlapped
    /\ procs[1].pc = "ok"
    /\ TargetCorrupted(1)
    /\ TemporaryGone(2)
    /\ FileAt("b.rs") = procs[2].original
    /\ procs[2].out.exists
    /\ FileAt("a.md") = procs[2].out

\* C17: for every buffer and every patch sequence, unsorted sequences and
\* overlapping Replace spans included, apply_patches raises no error and no
\* panic when the sink takes every write: both debug assertions hold in every
\* pass, byte_cursor never decreases and never exceeds the buffer length, and
\* every carbon-copy slice has start <= end <= buffer length.
C17_NoPanicOnAnyPatches ==
    /\ [](/\ pc \notin {"panic", "err"}
          /\ byte_cursor <= str_len(source_buffer)
          /\ pc \in {"cc", "done"}
                => /\ cc_start_byte_offset <= cc_end_byte_offset
                   /\ cc_end_byte_offset <= str_len(source_buffer)
                   /\ byte_cursor = cc_end_byte_offset
                   /\ SliceOk(source_buffer, cc_start_byte_offset,
                              cc_end_byte_offset))
    /\ [][byte_cursor' >= byte_cursor]_vars

C17_Witness ==
    /\ pc = "done"
    /\ Len(source_buffer) = 3
    /\ Len(given) = 2
    /\ given[1].kind = "Replace"
    /\ given[2].kind = "Replace"
    /\ given[1].replace_span = Span(LineColumn(1, 1), LineColumn(1, 2))
    /\ given[2].replace_span = Span(LineColumn(1, 0), LineColumn(1, 1))
    /\ ~SortedByStart(given)
    /\ ~NoOverlap(given)
    /\ iterations = 3

\* apply_patches on buffers of line ends and one multi-byte scalar and any
\* patch sequence, into a Vec<u8>; the call, once made, keeps running.
InitPass ==
    /\ \E buffer \in SeqsUpTo({NEWLINE, 233}, MaxLen),
          ps \in PatchSeqs(MaxPatches) :
            ApplyInit(buffer, ps, VecSink)
    /\ fs = [p \in {TEMPORARY} |-> NoFile]
    /\ RunIdle
    /\ RaceIdle

FairSpecPass == InitPass /\ [][NextPatch]_vars /\ WF_vars(NextPatch)

\* The patches popped from the stream so far.
Taken == IF pc = "done" THEN Len(given) ELSE iterations

\* C18: apply_patches terminates for every buffer of n characters and every
\* sequence of m patches: the loop runs exactly m+1 times, each patch is taken
\* from the stream exactly once and its payload emitted exactly once, and each
\* character of the character stream is consumed at most once, left to
\* right, never re-read.
C18_SinglePassTerminates ==
    /\ <>(pc = "done" /\ iterations = Len(given) + 1)
    /\ [](/\ iterations <= Len(given) + 1
          /\ source_iter <= Len(source_buffer)
          /\ patches = SubSeq(given, Taken + 1, Len(given))
          /\ current = (IF Taken = 0 \/ pc = "done" THEN None ELSE given[Taken])
          /\ \A k \in 1..Len(given) :
                Occurrences(offered, as_bytes(PayloadOf(k))[1])
                    = (IF k < Taken \/ pc = "done" \/ (k = Taken /\ pc = "cc")
                       THEN 1 ELSE 0))
    /\ [][/\ source_iter' >= source_iter
          /\ iterations' \in {iterations, iterations + 1}
          /\ Len(patches') \in {Len(patches), Len(patches) - 1}]_vars

C18_Witness ==
    /\ pc = "done"
    /\ Len(given) = 2
    /\ iterations = 3
    /\ source_buffer = <<233, NEWLINE, 233>>
    /\ source_iter = 3
    /\ Occurrences(offered, <<120, 1>>) = 1
    /\ Occurrences(offered, <<121, 1>>) = 1

\* C19: the temporary file is created, or an existing one truncated, only
\* after the target's whole content has been read as valid UTF-8, so a
\* path, open, read or encoding failure neither creates a temporary file nor
\* alters an existing one; and the rename happens only after the complete
\* merged output has been flushed to the temporary file.
C19_TemporaryAfterRead ==
    /\ pc = "idle" => fs[TEMPORARY] = original[TEMPORARY]
    /\ cf_pc = "rename" => (pc = "done" /\ sink.buf = <<>>)

\* The temporary file is created or truncated before the content is read:
\* it is untouched up to the open of the target, empty while the content is
\* read, and the rename comes behind the merge and the flush.
TemporaryBeforeRead ==
    /\ (pc = "idle" /\ cf_pc \in {"idle", "canonicalize", "open", "create"}
           /\ failed = {})
          => fs[TEMPORARY] = original[TEMPORARY]
    /\ cf_pc = "read" => fs[TEMPORARY] = File(<<>>)
    /\ cf_pc = "rename" => (pc = "done" /\ sink.buf = <<>>)

RECURSIVE PatchesFor(_, _)
\* The patches made of the edits that the pairs of b address to path p, in
\* the order of b.
PatchesFor(b, p) ==
    IF b = <<>> THEN <<>>
    ELSE (IF OriginPath(Head(b).origin) = p
          THEN Map(PatchFrom, Head(b).bandaids) ELSE <<>>)
         \o PatchesFor(Tail(b), p)

\* C20: after a successful Fix or Reflow run every path named by the batch
\* holds the merge of the edits addressed to it into the content it had
\* before the run, also when several ContentOrigin entries of the batch
\* resolve to one path.
C20_EveryPathFromOriginal ==
    (action \in {"Fix", "Reflow"} /\ finish.kind = "MistakeCount")
        => \A i \in 1..Len(batch) :
              LET p == OriginPath(batch[i].origin)
              IN  fs[p] = File(as_bytes(Reference(from_utf8(original[p].bytes),
                                                  PatchesFor(batch, p))))

\* No two pairs of the batch name one path.
DistinctPaths ==
    \A i, j \in 1..Len(batch) :
        i # j => OriginPath(batch[i].origin) # OriginPath(batch[j].origin)

\* With one pair per path every path holds what the merge of its edits
\* into its content before the run has offered the temporary file.
EveryPathFromOriginalWhenDistinct ==
    (action \in {"Fix", "Reflow"} /\ finish.kind = "MistakeCount"
       /\ DistinctPaths)
        => \A i \in 1..Len(batch) :
              LET p == OriginPath(batch[i].origin)
              IN  LastMerged(p)
                    = File(as_bytes(Reference(from_utf8(original[p].bytes),
                                              PatchesFor(batch, p))))

====
